---- MODULE Spec2Model ----
(***************************************************************************)
(* Model of claude_token_counter.core.token_data.TokenData: ingestion of   *)
(* the JSONL session logs under ~/.claude/projects and the aggregate       *)
(* queries answered from the in-memory usage_data list.                    *)
(*                                                                         *)
(* Time is counted in minutes; a day has 1440 of them.  Money is counted   *)
(* in units of 10^-8 dollar, so that (tokens / 1_000_000) * rate is the    *)
(* integer tokens * (100 * rate).                                          *)
(***************************************************************************)
EXTENDS Integers, Sequences, FiniteSets, TLC, Bags

VARIABLES
    root_exists,   \* does ~/.claude/projects exist
    fs,            \* path -> sequence of lines of the file (<<>>: no such file)
    writes,        \* number of lines the CLI has appended so far
    usage_data,    \* TokenData.usage_data
    last_call,     \* the operation that ran last
    now,           \* datetime.now(): local wall clock, minutes
    tz,            \* UTC offset of the local time zone, minutes
    result,        \* what the last query returned (or the exception it raised)
    listing,       \* the existing log files, in the order glob yields them
    loader,        \* where a load_data call in progress stands
    mounted,       \* MonitorTab.on_mount has run
    auto_refresh,  \* MonitorTab.auto_refresh
    refresh_timer, \* MonitorTab.refresh_timer: a timer, or None
    timers,        \* the interval timers that are running
    ticks          \* the timers with a callback queued for the event loop

dashboard == <<loader, mounted, auto_refresh, refresh_timer, timers, ticks>>

vars == <<root_exists, fs, writes, usage_data, last_call, now, tz, result,
          listing, dashboard>>

(***************************************************************************)
(* Bounds.                                                                 *)
(***************************************************************************)
MaxWrites == 3     \* lines appended to the logs in one behaviour
MaxLines == 2      \* lines of the log a query collection is parsed from
MaxTimers == 2     \* interval timers alive (running or with a callback queued) at once
MaxEntries == 3    \* records of a collection whose costs are added as floats

(***************************************************************************)
(* JSON null / Python None where an integer is expected.                   *)
(***************************************************************************)
None == 0 - 1

(***************************************************************************)
(* Wall-clock minutes of day d, h:m; the date and the hour of a time.      *)
(***************************************************************************)
At(d, h, m) == (d * 24 + h) * 60 + m
DateOf(t) == t \div (24 * 60)
HourOf(t) == (t % (24 * 60)) \div 60

(***************************************************************************)
(* Timestamps.  A JSON timestamp is null, or a string: either ISO-8601     *)
(* (wall-clock minutes and a zone suffix "Z", "+05:00" or none) or some    *)
(* other text ("" included).  Field text holds the zone suffix of an ISO   *)
(* string and the whole text of any other string.                          *)
(***************************************************************************)
NullTs == [kind |-> "None", wall |-> 0, text |-> ""]
Text(s) == [kind |-> "str", wall |-> 0, text |-> s]
Iso(w, suffix) == [kind |-> "iso", wall |-> w, text |-> suffix]

(***************************************************************************)
(* Log lines.  json tells whether the line decodes at all and to what;     *)
(* keys is the set of keys present in the decoded object, its "message"    *)
(* and its "usage"; the other fields are the values under those keys.      *)
(***************************************************************************)
AllKeys == {"type", "message", "timestamp", "sessionId", "model", "usage",
            "input_tokens", "output_tokens",
            "cache_creation_input_tokens", "cache_read_input_tokens"}

UsageLine(model, ts, inp, out, cw, cr, sid) ==
    [json |-> "object", keys |-> AllKeys, type |-> "assistant",
     message |-> "object", usage |-> "object",
     model |-> model, timestamp |-> ts,
     input_tokens |-> inp, output_tokens |-> out,
     cache_creation_input_tokens |-> cw, cache_read_input_tokens |-> cr,
     sessionId |-> sid]

LineA == UsageLine("claude-sonnet-4-20250514", Iso(At(12, 8, 25), "Z"), 1, 2, 4, 8, "s1")
\* usage without any token count, message without model, no timestamp, no sessionId
LineDefaults == [LineA EXCEPT !.keys = {"type", "message", "usage"}]
LineInvalid == [LineA EXCEPT !.json = "invalid"]         \* malformed JSON, or blank
LineArray == [LineA EXCEPT !.json = "array"]             \* valid JSON, not an object
LineUser == [LineA EXCEPT !.type = "user"]
LineNoUsage == [LineA EXCEPT !.keys = AllKeys \ {"usage"}]
LineMessageNumber == [LineA EXCEPT !.message = "number"] \* "message": 5
LineUsageNull == [LineA EXCEPT !.usage = "null"]         \* "usage": null

LogLines == {LineA, LineDefaults, LineInvalid, LineArray, LineUser,
             LineNoUsage, LineMessageNumber, LineUsageNull}

(***************************************************************************)
(* Files matched by glob('**/*.jsonl') under the data root.                *)
(***************************************************************************)
Paths == {[parent |-> "projA", name |-> "s1.jsonl"],
          [parent |-> "projB", name |-> "s2.jsonl"]}

NoFiles == [p \in Paths |-> <<>>]

(***************************************************************************)
(* glob lists a directory that has not changed in the same order each      *)
(* time; a new file can turn up anywhere in the listing.                   *)
(***************************************************************************)
Insertions(seq, x) ==
    {SubSeq(seq, 1, k) \o <<x>> \o SubSeq(seq, k + 1, Len(seq)) : k \in 0..Len(seq)}

(***************************************************************************)
(* No load_data call in progress; the engine used without the dashboard.   *)
(***************************************************************************)
IdleLoader ==
    [pc |-> "idle", jsonl_files |-> <<>>, before |-> <<>>, after |-> <<>>, handler |-> ""]

NoDashboard ==
    /\ loader = IdleLoader
    /\ mounted = FALSE
    /\ auto_refresh = TRUE
    /\ refresh_timer = None
    /\ timers = {}
    /\ ticks = {}

(***************************************************************************)
(* dict.get(key, default)                                                  *)
(***************************************************************************)
Get(line, key, default) == IF key \in line.keys THEN line[key] ELSE default

(***************************************************************************)
(* One iteration of the loop of parse_jsonl_file:                          *)
(*   "continue" - json.loads raised JSONDecodeError, caught in the loop    *)
(*   "raise"    - another exception, which leaves the loop and is caught   *)
(*                by the outer handler                                     *)
(*   "skip"     - the condition on type/message/usage is false             *)
(*   "append"   - a usage entry is appended                                *)
(***************************************************************************)
LineOutcome(line) ==
    IF line.json = "invalid" THEN "continue"
    ELSE IF line.json # "object" THEN "raise"                \* data.get
    ELSE IF ~("type" \in line.keys /\ line.type = "assistant") THEN "skip"
    ELSE IF "message" \notin line.keys THEN "skip"
    ELSE IF line.message # "object" THEN "raise"             \* 'usage' in 5
    ELSE IF "usage" \notin line.keys THEN "skip"
    ELSE IF line.usage # "object" THEN "raise"               \* usage.get
    ELSE "append"

UsageEntry(line, path) ==
    [model |-> Get(line, "model", "unknown"),
     timestamp |-> Get(line, "timestamp", Text("")),
     input_tokens |-> Get(line, "input_tokens", 0),
     output_tokens |-> Get(line, "output_tokens", 0),
     cache_creation_input_tokens |-> Get(line, "cache_creation_input_tokens", 0),
     cache_read_input_tokens |-> Get(line, "cache_read_input_tokens", 0),
     session_id |-> Get(line, "sessionId", ""),
     project_dir |-> path.parent]

RECURSIVE ParseFrom(_, _, _, _)
ParseFrom(lines, i, path, acc) ==
    IF i > Len(lines) THEN acc
    ELSE LET o == LineOutcome(lines[i]) IN
         IF o = "raise" THEN acc
         ELSE IF o = "append"
              THEN ParseFrom(lines, i + 1, path, Append(acc, UsageEntry(lines[i], path)))
              ELSE ParseFrom(lines, i + 1, path, acc)

parse_jsonl_file(path, lines) == ParseFrom(lines, 1, path, <<>>)

(***************************************************************************)
(* find_claude_data_dir: the directory, or None when it does not exist.    *)
(***************************************************************************)
find_claude_data_dir(exists) == exists

(***************************************************************************)
(* The orders in which glob can list the files.                            *)
(***************************************************************************)
Orders(S) == {o \in [1..Cardinality(S) -> S] : \A p \in S : \E i \in DOMAIN o : o[i] = p}

RECURSIVE ExtendAll(_, _, _)
ExtendAll(files, order, i) ==
    IF i > Len(order) THEN <<>>
    ELSE parse_jsonl_file(order[i], files[order[i]]) \o ExtendAll(files, order, i + 1)

\* the new entries added to the list without emptying it first
LoadResultKeepsOld(exists, files, old, order) ==
    IF ~find_claude_data_dir(exists) THEN old
    ELSE old \o ExtendAll(files, order, 1)

(***************************************************************************)
(* load_data's effect on usage_data, for one listing order.                *)
(***************************************************************************)
LoadResult(exists, files, old, order) ==
    IF ~find_claude_data_dir(exists) THEN old
    ELSE ExtendAll(files, order, 1)

(***************************************************************************)
(* PRICING, in cents per million tokens (100 * the dollar rate), so that   *)
(* a cost is a whole number of 10^-8 dollars.                              *)
(***************************************************************************)
Sonnet4 == "claude-sonnet-4-20250514"
Sonnet35 == "claude-3-5-sonnet-20241022"
Opus3 == "claude-3-opus-20240229"

PRICING ==
    (Sonnet4 :> [input |-> 300, output |-> 1500, cache_write |-> 375, cache_read |-> 30])
    @@ (Sonnet35 :> [input |-> 300, output |-> 1500, cache_write |-> 375, cache_read |-> 30])
    @@ (Opus3 :> [input |-> 1500, output |-> 7500, cache_write |-> 1875, cache_read |-> 150])

\* cache reads charged at the cache write rate
calculate_cost_cache_read_as_write(usage_entry) ==
    LET model == usage_entry.model
        pricing == IF model \in DOMAIN PRICING THEN PRICING[model] ELSE PRICING[Sonnet4]
    IN  usage_entry.input_tokens * pricing.input
        + usage_entry.output_tokens * pricing.output
        + usage_entry.cache_creation_input_tokens * pricing.cache_write
        + usage_entry.cache_read_input_tokens * pricing.cache_write

\* a model missing from the table priced as the most expensive one
calculate_cost_default_opus(usage_entry) ==
    LET model == usage_entry.model
        pricing == IF model \in DOMAIN PRICING THEN PRICING[model] ELSE PRICING[Opus3]
    IN  usage_entry.input_tokens * pricing.input
        + usage_entry.output_tokens * pricing.output
        + usage_entry.cache_creation_input_tokens * pricing.cache_write
        + usage_entry.cache_read_input_tokens * pricing.cache_read

calculate_cost(usage_entry) ==
    LET model == usage_entry.model
        pricing == IF model \in DOMAIN PRICING THEN PRICING[model] ELSE PRICING[Sonnet4]
    IN  usage_entry.input_tokens * pricing.input
        + usage_entry.output_tokens * pricing.output
        + usage_entry.cache_creation_input_tokens * pricing.cache_write
        + usage_entry.cache_read_input_tokens * pricing.cache_read

(***************************************************************************)
(* What a call does: it returns a value or raises an exception.            *)
(***************************************************************************)
Return(v) == [exc |-> "", value |-> v]
Raise(e) == [exc |-> e, value |-> <<>>]

TokenFields == {"input_tokens", "output_tokens",
                "cache_creation_input_tokens", "cache_read_input_tokens"}

\* some token count of the entry is None: adding it raises TypeError
HasNone(entry) == \E f \in TokenFields : entry[f] = None

TotalTokens(entry) ==
    entry.input_tokens + entry.output_tokens
    + entry.cache_creation_input_tokens + entry.cache_read_input_tokens

Front(seq) == SubSeq(seq, 1, Len(seq) - 1)
Last(seq) == seq[Len(seq)]
Min(a, b) == IF a <= b THEN a ELSE b
Max(a, b) == IF a >= b THEN a ELSE b

(***************************************************************************)
(* get_local_datetime: fromisoformat of the string with "Z" replaced by    *)
(* "+00:00", then astimezone() (a string without zone is taken as local    *)
(* time); None on any exception.  Returns the local wall clock.            *)
(***************************************************************************)
ZoneOffset(suffix) == IF suffix = "+05:00" THEN 5 * 60 ELSE 0

\* a string that does not parse taken as the present moment
get_local_datetime_or_now(timestamp_str) ==
    IF timestamp_str.kind # "iso" THEN [ok |-> TRUE, t |-> now]
    ELSE IF timestamp_str.text = "" THEN [ok |-> TRUE, t |-> timestamp_str.wall]
    ELSE [ok |-> TRUE, t |-> timestamp_str.wall - ZoneOffset(timestamp_str.text) + tz]

get_local_datetime(timestamp_str) ==
    IF timestamp_str.kind # "iso" THEN [ok |-> FALSE, t |-> 0]
    ELSE IF timestamp_str.text = "" THEN [ok |-> TRUE, t |-> timestamp_str.wall]
    ELSE [ok |-> TRUE, t |-> timestamp_str.wall - ZoneOffset(timestamp_str.text) + tz]

(***************************************************************************)
(* strftime with the three formats the queries use; a label is the tuple   *)
(* of the numbers printed.                                                 *)
(***************************************************************************)
strftime(t, format) ==
    IF format = "%H:00" THEN <<HourOf(t)>>
    ELSE IF format = "%Y-%m-%d %H:00" THEN <<DateOf(t), HourOf(t)>>
    ELSE <<DateOf(t)>>

(***************************************************************************)
(* get_summary_stats                                                       *)
(***************************************************************************)
NoFilter == [given |-> FALSE, data |-> <<>>]
Filter(records) == [given |-> TRUE, data |-> records]

RECURSIVE SumField(_, _)
SumField(data, field) ==
    IF data = <<>> THEN 0 ELSE SumField(Front(data), field) + Last(data)[field]

\* the cost total with the pricing of the first entry's model for every entry
SumCostFirstModel(data) ==
    IF data = <<>> THEN 0
    ELSE LET pricing == IF data[1].model \in DOMAIN PRICING
                        THEN PRICING[data[1].model] ELSE PRICING[Sonnet4]
             entry_cost(e) == e.input_tokens * pricing.input
                              + e.output_tokens * pricing.output
                              + e.cache_creation_input_tokens * pricing.cache_write
                              + e.cache_read_input_tokens * pricing.cache_read
             total[n \in 0..Len(data)] == IF n = 0 THEN 0 ELSE total[n - 1] + entry_cost(data[n])
         IN  total[Len(data)]

RECURSIVE SumCost(_)
SumCost(data) ==
    IF data = <<>> THEN 0 ELSE SumCost(Front(data)) + calculate_cost(Last(data))

NoModels == [m \in {} |-> 0]

ZeroModel == [requests |-> 0, input_tokens |-> 0, output_tokens |-> 0,
              cache_creation_input_tokens |-> 0, cache_read_input_tokens |-> 0,
              cost |-> 0]

RECURSIVE ModelBreakdown(_)
ModelBreakdown(data) ==
    IF data = <<>> THEN NoModels
    ELSE LET models == ModelBreakdown(Front(data))
             entry == Last(data)
             model == entry.model
             old == IF model \in DOMAIN models THEN models[model] ELSE ZeroModel
             new == [requests |-> old.requests + 1,
                     input_tokens |-> old.input_tokens + entry.input_tokens,
                     output_tokens |-> old.output_tokens + entry.output_tokens,
                     cache_creation_input_tokens |->
                         old.cache_creation_input_tokens + entry.cache_creation_input_tokens,
                     cache_read_input_tokens |->
                         old.cache_read_input_tokens + entry.cache_read_input_tokens,
                     cost |-> old.cost + calculate_cost(entry)]
         IN  [m \in DOMAIN models \cup {model} |-> IF m = model THEN new ELSE models[m]]

\* data = filter_data or self.usage_data
SummaryInputOr(filter_data) ==
    IF filter_data.given /\ filter_data.data # <<>> THEN filter_data.data ELSE usage_data

\* data = filter_data if filter_data is not None else self.usage_data
SummaryInput(filter_data) == IF filter_data.given THEN filter_data.data ELSE usage_data

get_summary_stats(filter_data) ==
    LET data == SummaryInput(filter_data) IN
    IF data = <<>>
    THEN Return([total_requests |-> 0, total_input |-> 0, total_output |-> 0,
                 total_cache_creation |-> 0, total_cache_read |-> 0,
                 total_cost |-> 0, models |-> NoModels])
    ELSE IF \E i \in DOMAIN data : HasNone(data[i])
    THEN Raise("TypeError")                                  \* sum(...) over a None
    ELSE Return([total_requests |-> Len(data),
                 total_input |-> SumField(data, "input_tokens"),
                 total_output |-> SumField(data, "output_tokens"),
                 total_cache_creation |-> SumField(data, "cache_creation_input_tokens"),
                 total_cache_read |-> SumField(data, "cache_read_input_tokens"),
                 total_cost |-> SumCost(data),
                 models |-> ModelBreakdown(data)])

(***************************************************************************)
(* Python floats.  A cost is a float: IEEE 754 binary64, every operation   *)
(* rounded to 53 significant bits, to nearest and on a tie to even.  A     *)
(* non-negative float is held exactly, in fixed point: Width limbs of      *)
(* LimbBits bits, least significant first, the lowest FractionLimbs of     *)
(* them after the binary point.  That holds every value met here: token    *)
(* counts below 2^31 divided by a million, multiplied by the rates of the  *)
(* table and added up.  Bit p is bit p % LimbBits of limb p \div LimbBits  *)
(* + 1.                                                                    *)
(***************************************************************************)
LimbBits == 10
Base == 1024
Mantissa == 53
FractionLimbs == 14
Width == 20
Limbs == 1..Width

Zero64 == [i \in Limbs |-> 0]

Top(a) == CHOOSE i \in Limbs : a[i] # 0 /\ \A j \in Limbs : j > i => a[j] = 0
Low(a) == CHOOSE i \in Limbs : a[i] # 0 /\ \A j \in Limbs : j < i => a[j] = 0

\* the position of the leading bit
TopBit(a) ==
    LimbBits * (Top(a) - 1) + Cardinality({k \in 1..(LimbBits - 1) : 2^k <= a[Top(a)]})

BitAt(a, p) == (a[(p \div LimbBits) + 1] \div 2^(p % LimbBits)) % 2

NonzeroBelow(a, p) ==
    \/ a[(p \div LimbBits) + 1] % 2^(p % LimbBits) # 0
    \/ \E i \in 1..(p \div LimbBits) : a[i] # 0

ClearBelow(a, p) ==
    [i \in Limbs |-> IF i < (p \div LimbBits) + 1 THEN 0
                     ELSE IF i = (p \div LimbBits) + 1
                     THEN a[i] - (a[i] % 2^(p % LimbBits))
                     ELSE a[i]]

UnitAt(p) == [i \in Limbs |-> IF i = (p \div LimbBits) + 1 THEN 2^(p % LimbBits) ELSE 0]

\* the carry into limb i of the exact sum
RECURSIVE CarryInto(_, _, _)
CarryInto(a, b, i) ==
    IF i = 1 THEN 0
    ELSE IF a[i - 1] + b[i - 1] = Base - 1 THEN CarryInto(a, b, i - 1)
    ELSE (a[i - 1] + b[i - 1]) \div Base

ExactSum(a, b) == [i \in Limbs |-> (a[i] + b[i] + CarryInto(a, b, i)) % Base]

\* the float nearest to an exact value; inexact tells that the value has
\* more bits below the ones held in a
Round(a, inexact) ==
    IF a = Zero64 \/ TopBit(a) < Mantissa THEN a
    ELSE LET lsb == TopBit(a) - (Mantissa - 1)
             half == BitAt(a, lsb - 1) = 1
             rest == inexact \/ NonzeroBelow(a, lsb - 1)
             odd == BitAt(a, lsb) = 1
             kept == ClearBelow(a, lsb)
         IN  IF half /\ (rest \/ odd) THEN ExactSum(kept, UnitAt(lsb)) ELSE kept

\* a + b
FloatAdd(a, b) == Round(ExactSum(a, b), FALSE)

\* the sum of the limb products that fall on limb k of the exact product
Column(a, b, k) ==
    LET terms == {i \in Limbs : k + 1 - i \in Limbs /\ a[i] * b[k + 1 - i] > 0}
    IN  BagCardinality([i \in terms |-> a[i] * b[k + 1 - i]])

RECURSIVE ProductFrom(_, _, _, _, _)
ProductFrom(a, b, k, high, carry) ==
    IF k > high THEN <<>>
    ELSE LET s == Column(a, b, k) + carry
         IN  <<s % Base>> \o ProductFrom(a, b, k + 1, high, s \div Base)

\* a * b
FloatMul(a, b) ==
    IF a = Zero64 \/ b = Zero64 THEN Zero64
    ELSE LET low == Low(a) + Low(b) - 1
             high == Top(a) + Top(b)
             product == ProductFrom(a, b, low, high, 0)
             ProductLimb(k) == IF k < low \/ k > high THEN 0 ELSE product[k - low + 1]
         IN  Round([i \in Limbs |-> ProductLimb(i + FractionLimbs)],
                   \E k \in 1..FractionLimbs : ProductLimb(k) # 0)

\* what is left of n * Base^j after the division by d
RECURSIVE Remainder(_, _, _)
Remainder(n, d, j) == IF j = 0 THEN n % d ELSE (Remainder(n, d, j - 1) * Base) % d

\* n / d for integers 0 <= n < 2^31 and 0 < d <= 2^21
TrueDiv(n, d) ==
    Round([i \in Limbs |->
              IF i <= FractionLimbs
              THEN (Remainder(n, d, FractionLimbs - i) * Base) \div d
              ELSE IF i - FractionLimbs <= 4
              THEN ((n \div d) \div Base^(i - FractionLimbs - 1)) % Base
              ELSE 0],
          Remainder(n, d, FractionLimbs) # 0)

\* a rate of the table: the float nearest to the decimal literal
Rate64(cents) == TrueDiv(cents, 100)

calculate_cost64(usage_entry) ==
    LET model == usage_entry.model
        pricing == IF model \in DOMAIN PRICING THEN PRICING[model] ELSE PRICING[Sonnet4]
        input_cost ==
            FloatMul(TrueDiv(usage_entry.input_tokens, 1000000), Rate64(pricing.input))
        output_cost ==
            FloatMul(TrueDiv(usage_entry.output_tokens, 1000000), Rate64(pricing.output))
        cache_write_cost ==
            FloatMul(TrueDiv(usage_entry.cache_creation_input_tokens, 1000000),
                     Rate64(pricing.cache_write))
        cache_read_cost ==
            FloatMul(TrueDiv(usage_entry.cache_read_input_tokens, 1000000),
                     Rate64(pricing.cache_read))
    IN  FloatAdd(FloatAdd(FloatAdd(input_cost, output_cost), cache_write_cost),
                 cache_read_cost)

\* sum(self.calculate_cost(entry) for entry in data): from 0, left to right
RECURSIVE SumCost64(_)
SumCost64(data) ==
    IF data = <<>> THEN Zero64
    ELSE FloatAdd(SumCost64(Front(data)), calculate_cost64(Last(data)))

ZeroModel64 == [ZeroModel EXCEPT !.cost = Zero64]

\* the breakdown whose cost is assigned (=) where the code accumulates (+=)
RECURSIVE ModelBreakdownAssignsCost64(_)
ModelBreakdownAssignsCost64(data) ==
    IF data = <<>> THEN NoModels
    ELSE LET models == ModelBreakdownAssignsCost64(Front(data))
             entry == Last(data)
             model == entry.model
             old == IF model \in DOMAIN models THEN models[model] ELSE ZeroModel64
             new == [requests |-> old.requests + 1,
                     input_tokens |-> old.input_tokens + entry.input_tokens,
                     output_tokens |-> old.output_tokens + entry.output_tokens,
                     cache_creation_input_tokens |->
                         old.cache_creation_input_tokens + entry.cache_creation_input_tokens,
                     cache_read_input_tokens |->
                         old.cache_read_input_tokens + entry.cache_read_input_tokens,
                     cost |-> calculate_cost64(entry)]
         IN  [m \in DOMAIN models \cup {model} |-> IF m = model THEN new ELSE models[m]]

RECURSIVE ModelBreakdown64(_)
ModelBreakdown64(data) ==
    IF data = <<>> THEN NoModels
    ELSE LET models == ModelBreakdown64(Front(data))
             entry == Last(data)
             model == entry.model
             old == IF model \in DOMAIN models THEN models[model] ELSE ZeroModel64
             new == [requests |-> old.requests + 1,
                     input_tokens |-> old.input_tokens + entry.input_tokens,
                     output_tokens |-> old.output_tokens + entry.output_tokens,
                     cache_creation_input_tokens |->
                         old.cache_creation_input_tokens + entry.cache_creation_input_tokens,
                     cache_read_input_tokens |->
                         old.cache_read_input_tokens + entry.cache_read_input_tokens,
                     cost |-> FloatAdd(old.cost, calculate_cost64(entry))]
         IN  [m \in DOMAIN models \cup {model} |-> IF m = model THEN new ELSE models[m]]

\* get_summary_stats with its costs as the floats Python computes
get_summary_stats64(filter_data) ==
    LET data == SummaryInput(filter_data) IN
    IF data = <<>>
    THEN Return([total_requests |-> 0, total_input |-> 0, total_output |-> 0,
                 total_cache_creation |-> 0, total_cache_read |-> 0,
                 total_cost |-> Zero64, models |-> NoModels])
    ELSE IF \E i \in DOMAIN data : HasNone(data[i])
    THEN Raise("TypeError")                                  \* sum(...) over a None
    ELSE Return([total_requests |-> Len(data),
                 total_input |-> SumField(data, "input_tokens"),
                 total_output |-> SumField(data, "output_tokens"),
                 total_cache_creation |-> SumField(data, "cache_creation_input_tokens"),
                 total_cache_read |-> SumField(data, "cache_read_input_tokens"),
                 total_cost |-> SumCost64(data),
                 models |-> ModelBreakdown64(data)])

(***************************************************************************)
(* get_recent_activity.  Timestamp strings are compared as Python compares *)
(* strings: "" first, ISO strings by their digits and then by their zone   *)
(* suffix ("" < "+05:00" < "Z"), any text starting with a letter last.     *)
(* Comparing None with anything raises TypeError, and sorted() compares    *)
(* every element of a list of two or more.                                 *)
(***************************************************************************)
SuffixRank(suffix) == IF suffix = "" THEN 0 ELSE IF suffix = "Z" THEN 2 ELSE 1

StrRank(ts) ==
    IF ts.kind = "iso" THEN <<1, ts.wall, SuffixRank(ts.text)>>
    ELSE IF ts.text = "" THEN <<0, 0, 0>>
    ELSE <<2, 0, 0>>

StrLess(a, b) ==
    LET x == StrRank(a)
        y == StrRank(b)
    IN  \/ x[1] < y[1]
        \/ x[1] = y[1] /\ x[2] < y[2]
        \/ x[1] = y[1] /\ x[2] = y[2] /\ x[3] < y[3]

\* the list left as it is
SortedKeepsOrder(data) == data

\* sorted(..., reverse=True): descending, equal keys keep their order
RECURSIVE SortedReverse(_)
SortedReverse(data) ==
    IF data = <<>> THEN <<>>
    ELSE LET rest == SortedReverse(Front(data))
             x == Last(data)
             k == Cardinality({i \in DOMAIN rest : ~StrLess(rest[i].timestamp, x.timestamp)})
         IN  SubSeq(rest, 1, k) \o <<x>> \o SubSeq(rest, k + 1, Len(rest))

\* seq[:limit]
Slice(seq, limit) ==
    IF limit >= 0 THEN SubSeq(seq, 1, Min(limit, Len(seq)))
    ELSE SubSeq(seq, 1, Max(Len(seq) + limit, 0))

\* list.sort(reverse=True): the list itself put in descending order
ListAfterSortInPlace(data) == SortedReverse(data)

\* sorted() builds a new list; the list it is given stays as it is
ListAfterSorted(data) == data

get_recent_activity(limit) ==
    IF Len(usage_data) >= 2 /\ \E i \in DOMAIN usage_data : usage_data[i].timestamp.kind = "None"
    THEN Raise("TypeError")
    ELSE Return(Slice(SortedReverse(usage_data), limit))

(***************************************************************************)
(* get_today_data: the entries whose timestamp string starts with          *)
(* date.today().isoformat(); None has no startswith.                       *)
(***************************************************************************)
\* the date of the timestamp's local time instead of its first characters
StartsWithLocalDate(ts, today) ==
    get_local_datetime(ts).ok /\ DateOf(get_local_datetime(ts).t) = today

StartsWithDate(ts, today) == ts.kind = "iso" /\ DateOf(ts.wall) = today

get_today_data ==
    LET today == DateOf(now) IN
    IF \E i \in DOMAIN usage_data : usage_data[i].timestamp.kind = "None"
    THEN Raise("AttributeError")
    ELSE Return(SelectSeq(usage_data, LAMBDA entry : StartsWithDate(entry.timestamp, today)))

(***************************************************************************)
(* get_hourly_usage.  An exception inside the loop body skips the rest of  *)
(* the body for that entry; what the body did before it stays.             *)
(***************************************************************************)
NoBuckets == [k \in {} |-> 0]

ZeroHour == [tokens |-> 0, cost |-> 0, requests |-> 0]

\* the window test with the cutoff itself excluded
InHourlyWindowStrict(t, cutoff) == t > cutoff

\* local_timestamp.replace(tzinfo=None) >= cutoff
InHourlyWindow(t, cutoff) == t >= cutoff

RECURSIVE HourlyLoop(_, _)
HourlyLoop(data, cutoff) ==
    IF data = <<>> THEN NoBuckets
    ELSE LET hourly_data == HourlyLoop(Front(data), cutoff)
             entry == Last(data)
             local_timestamp == get_local_datetime(entry.timestamp)
         IN  IF ~(local_timestamp.ok /\ InHourlyWindow(local_timestamp.t, cutoff)) THEN hourly_data
             ELSE LET hour_key == strftime(local_timestamp.t, "%H:00")
                      created == IF hour_key \in DOMAIN hourly_data THEN hourly_data
                                 ELSE hourly_data @@ (hour_key :> ZeroHour)
                  IN  IF HasNone(entry) THEN created         \* total_tokens raises
                      ELSE [created EXCEPT ![hour_key] =
                              [tokens |-> @.tokens + TotalTokens(entry),
                               cost |-> @.cost + calculate_cost(entry),
                               requests |-> @.requests + 1]]

get_hourly_usage(hours) == Return(HourlyLoop(usage_data, now - hours * 60))

(***************************************************************************)
(* get_recent_trend: six buckets of ten minutes from now - minutes on.     *)
(***************************************************************************)
\* the bucket test with the left end open
InBucketLeftOpen(t, bucket_start, bucket_end) == bucket_start < t /\ t < bucket_end

\* bucket_start <= local_naive < bucket_end
InBucket(t, bucket_start, bucket_end) == bucket_start <= t /\ t < bucket_end

RECURSIVE BucketTokens(_, _, _)
BucketTokens(data, bucket_start, bucket_end) ==
    IF data = <<>> THEN 0
    ELSE LET bucket_tokens == BucketTokens(Front(data), bucket_start, bucket_end)
             entry == Last(data)
             local_timestamp == get_local_datetime(entry.timestamp)
         IN  IF /\ local_timestamp.ok
                /\ InBucket(local_timestamp.t, bucket_start, bucket_end)
                /\ ~HasNone(entry)                           \* total_tokens raises
             THEN bucket_tokens + TotalTokens(entry)
             ELSE bucket_tokens

\* bucket_start = cutoff + timedelta(minutes=i*10)
BucketStart(cutoff, i) == cutoff + i * 10

get_recent_trend(minutes) ==
    LET cutoff == now - minutes IN
    Return([b \in 1..6 |->
              LET bucket_start == BucketStart(cutoff, b - 1)
              IN  BucketTokens(usage_data, bucket_start, bucket_start + 10)])

(***************************************************************************)
(* get_time_series_data                                                    *)
(***************************************************************************)
ZeroPoint == [input_tokens |-> 0, output_tokens |-> 0, total_tokens |-> 0,
              cost |-> 0, requests |-> 0]

\* the granularity threshold one day too low
TimeFormatBelowTwo(days) == IF days < 2 THEN "%Y-%m-%d %H:00" ELSE "%Y-%m-%d"

TimeFormat(days) == IF days <= 2 THEN "%Y-%m-%d %H:00" ELSE "%Y-%m-%d"

\* local_timestamp.replace(minute=0, ...) or .replace(hour=0, minute=0, ...)
TimeKey(t, days) == IF days <= 2 THEN t - (t % 60) ELSE t - (t % (24 * 60))

\* the window test with the cutoff itself excluded
InSeriesWindowStrict(t, cutoff) == t > cutoff

\* local_timestamp.replace(tzinfo=None) >= cutoff
InSeriesWindow(t, cutoff) == t >= cutoff

\* the five += of the loop body, up to the first that raises TypeError
AddToPoint(point, entry) ==
    IF entry.input_tokens = None THEN point
    ELSE IF entry.output_tokens = None
    THEN [point EXCEPT !.input_tokens = @ + entry.input_tokens]
    ELSE IF entry.cache_creation_input_tokens = None \/ entry.cache_read_input_tokens = None
    THEN [point EXCEPT !.input_tokens = @ + entry.input_tokens,
                       !.output_tokens = @ + entry.output_tokens]
    ELSE [input_tokens |-> point.input_tokens + entry.input_tokens,
          output_tokens |-> point.output_tokens + entry.output_tokens,
          total_tokens |-> point.total_tokens + TotalTokens(entry),
          cost |-> point.cost + calculate_cost(entry),
          requests |-> point.requests + 1]

RECURSIVE SeriesLoop(_, _, _)
SeriesLoop(data, cutoff, days) ==
    IF data = <<>> THEN NoBuckets
    ELSE LET time_series == SeriesLoop(Front(data), cutoff, days)
             entry == Last(data)
             local_timestamp == get_local_datetime(entry.timestamp)
         IN  IF ~(local_timestamp.ok /\ InSeriesWindow(local_timestamp.t, cutoff))
             THEN time_series
             ELSE LET time_str == strftime(TimeKey(local_timestamp.t, days), TimeFormat(days))
                      created == IF time_str \in DOMAIN time_series THEN time_series
                                 ELSE time_series @@ (time_str :> ZeroPoint)
                  IN  [created EXCEPT ![time_str] = AddToPoint(@, entry)]

get_time_series_data(days) ==
    Return(<<SeriesLoop(usage_data, now - days * 24 * 60, days), TimeFormat(days)>>)

(***************************************************************************)
(* TokenData() : usage_data = [] and then load_data().                     *)
(***************************************************************************)
Init ==
    /\ root_exists \in BOOLEAN
    /\ fs = NoFiles
    /\ writes = 0
    /\ listing = <<>>
    /\ usage_data = LoadResult(root_exists, fs, <<>>, listing)
    /\ last_call = "__init__"
    /\ now = 0
    /\ tz = 0
    /\ result = <<>>
    /\ NoDashboard

(***************************************************************************)
(* The environment: the CLI appends a line to a session log; the user      *)
(* deletes or recreates the data directory.                                *)
(***************************************************************************)
AppendLine ==
    /\ root_exists
    /\ writes < MaxWrites
    /\ \E p \in Paths, l \in LogLines :
           /\ fs' = [fs EXCEPT ![p] = Append(@, l)]
           /\ listing' \in (IF fs[p] = <<>> THEN Insertions(listing, p) ELSE {listing})
    /\ writes' = writes + 1
    /\ last_call' = "append_line"
    /\ UNCHANGED <<root_exists, usage_data, now, tz, result, dashboard>>

RemoveRoot ==
    /\ root_exists
    /\ root_exists' = FALSE
    /\ fs' = NoFiles
    /\ listing' = <<>>
    /\ last_call' = "remove_root"
    /\ UNCHANGED <<writes, usage_data, now, tz, result, dashboard>>

CreateRoot ==
    /\ ~root_exists
    /\ root_exists' = TRUE
    /\ last_call' = "create_root"
    /\ UNCHANGED <<fs, writes, usage_data, now, tz, result, listing, dashboard>>

load_data ==
    /\ usage_data' = LoadResult(root_exists, fs, usage_data, listing)
    /\ last_call' = "load_data"
    /\ UNCHANGED <<root_exists, fs, writes, now, tz, result, listing, dashboard>>

Next == AppendLine \/ RemoveRoot \/ CreateRoot \/ load_data

Spec == Init /\ [][Next]_vars

(***************************************************************************)
(* The queries, asked of a collection loaded from one session log.         *)
(*                                                                         *)
(* The clock reads day 12, 10:30 local time, in a zone two hours or one    *)
(* hour ahead of UTC.  The log lines carry these timestamps (the comment   *)
(* gives the local time in the zone two hours ahead):                      *)
(***************************************************************************)
Nows == {At(12, 10, 30)}
Zones == {2 * 60, 60}

TsRecent == Iso(At(12, 8, 25), "Z")          \* 10:25
TsHourAgo == Iso(At(12, 7, 30), "Z")         \* 09:30
TsOverHour == Iso(At(12, 7, 29), "Z")        \* 09:29
TsFuture == Iso(At(12, 13, 35), "+05:00")    \* 10:35
TsYesterday == Iso(At(11, 8, 30), "Z")       \* day 11, 10:30
TsLateUtc == Iso(At(11, 22, 25), "Z")        \* day 12, 00:25
TsOld == Iso(At(8, 8, 0), "Z")               \* day 8, 10:00

QueryLines ==
    {UsageLine(Sonnet4, TsRecent, 1, 2, 4, 8, "s1"),
     UsageLine(Opus3, TsHourAgo, 16, 0, 0, 0, "s1"),
     UsageLine("claude-x", TsOverHour, 0, 32, 0, 0, "s2"),
     UsageLine(Sonnet35, TsFuture, 0, 0, 64, 0, "s2"),
     UsageLine(Opus3, TsYesterday, 0, 0, 0, 128, "s1"),
     UsageLine(Sonnet4, TsLateUtc, 256, 0, 0, 0, "s1"),
     UsageLine(Sonnet4, TsOld, 0, 512, 0, 0, "s1"),
     \* no timestamp and no model in the line
     [UsageLine(Sonnet4, TsRecent, 1024, 0, 0, 0, "s1")
         EXCEPT !.keys = AllKeys \ {"timestamp", "model"}],
     \* "timestamp": null
     UsageLine(Sonnet4, NullTs, 0, 0, 2048, 0, "s1"),
     \* "cache_read_input_tokens": null
     UsageLine(Sonnet4, TsRecent, 3, 5, 7, None, "s1")}

SeqsUpTo(S, n) == UNION {[1..k -> S] : k \in 0..n}

QueryPath == [parent |-> "projA", name |-> "s1.jsonl"]

QueryInit ==
    /\ root_exists = TRUE
    /\ \E lines \in SeqsUpTo(QueryLines, MaxLines) :
           /\ fs = [NoFiles EXCEPT ![QueryPath] = lines]
           /\ writes = Len(lines)
           /\ listing = IF lines = <<>> THEN <<>> ELSE <<QueryPath>>
    /\ usage_data = LoadResult(root_exists, fs, <<>>, listing)
    /\ last_call = "__init__"
    /\ now \in Nows
    /\ tz \in Zones
    /\ result = <<>>
    /\ NoDashboard

Limits == {0 - 1, 0, 1, 2}
Hours == {1, 25}
Minutes == {30, 60, 120}
Days == {1, 2, 3}

Called(args, ret) == [args |-> args, ret |-> ret]

\* the lists the callers summarize: the whole collection, today's entries,
\* the entries of a session, of a project, or a single entry
Filters ==
    {NoFilter, Filter(<<>>)}
    \cup (IF get_today_data.exc = "" THEN {Filter(get_today_data.value)} ELSE {})
    \cup {Filter(SelectSeq(usage_data, LAMBDA e : e.session_id = sid)) : sid \in {"s1", "s2"}}
    \cup {Filter(<<usage_data[i]>>) : i \in DOMAIN usage_data}

Summarize ==
    /\ \E filter_data \in Filters :
           result' = Called(filter_data, get_summary_stats(filter_data))
    /\ last_call' = "get_summary_stats"
    /\ UNCHANGED <<root_exists, fs, writes, usage_data, now, tz, listing, dashboard>>

RecentActivity ==
    /\ \E limit \in Limits : result' = Called(limit, get_recent_activity(limit))
    /\ usage_data' = ListAfterSorted(usage_data)
    /\ last_call' = "get_recent_activity"
    /\ UNCHANGED <<root_exists, fs, writes, now, tz, listing, dashboard>>

TodayData ==
    /\ result' = Called(<<>>, get_today_data)
    /\ last_call' = "get_today_data"
    /\ UNCHANGED <<root_exists, fs, writes, usage_data, now, tz, listing, dashboard>>

HourlyUsage ==
    /\ \E hours \in Hours : result' = Called(hours, get_hourly_usage(hours))
    /\ last_call' = "get_hourly_usage"
    /\ UNCHANGED <<root_exists, fs, writes, usage_data, now, tz, listing, dashboard>>

RecentTrend ==
    /\ \E minutes \in Minutes : result' = Called(minutes, get_recent_trend(minutes))
    /\ last_call' = "get_recent_trend"
    /\ UNCHANGED <<root_exists, fs, writes, usage_data, now, tz, listing, dashboard>>

TimeSeries ==
    /\ \E days \in Days : result' = Called(days, get_time_series_data(days))
    /\ last_call' = "get_time_series_data"
    /\ UNCHANGED <<root_exists, fs, writes, usage_data, now, tz, listing, dashboard>>

\* the report prices an entry of the collection; dividing None raises
CalculateCost ==
    /\ \E i \in DOMAIN usage_data :
           result' = Called(usage_data[i],
                            IF HasNone(usage_data[i]) THEN Raise("TypeError")
                            ELSE Return(calculate_cost(usage_data[i])))
    /\ last_call' = "calculate_cost"
    /\ UNCHANGED <<root_exists, fs, writes, usage_data, now, tz, listing, dashboard>>

QueryNext ==
    \/ Summarize \/ RecentActivity \/ TodayData \/ HourlyUsage
    \/ RecentTrend \/ TimeSeries \/ CalculateCost

QuerySpec == QueryInit /\ [][QueryNext]_vars

(***************************************************************************)
(* calculate_cost on its own, asked of the one entry of a log with one     *)
(* line.  The line names a model of the table, "unknown" (what the parser  *)
(* stores when the line has no model) or an identifier that is a prefix    *)
(* of a table key, and carries token counts from none to a million.        *)
(***************************************************************************)
CostModels == {Sonnet4, Sonnet35, Opus3, "unknown", "claude-3-opus"}

CostLines ==
    {UsageLine(model, TsRecent, inp, out, cw, cr, "s1") :
        model \in CostModels, inp \in {0, 1, 1000000},
        out \in {0, 1}, cw \in {0, 1}, cr \in {0, 2}}

CostInit ==
    /\ root_exists = TRUE
    /\ \E line \in CostLines : fs = [NoFiles EXCEPT ![QueryPath] = <<line>>]
    /\ writes = 1
    /\ listing = <<QueryPath>>
    /\ usage_data = LoadResult(root_exists, fs, <<>>, listing)
    /\ last_call = "__init__"
    /\ now \in Nows
    /\ tz \in Zones
    /\ result = <<>>
    /\ NoDashboard

CostNext == CalculateCost

CostSpec == CostInit /\ [][CostNext]_vars

(***************************************************************************)
(* get_summary_stats with float costs, asked of a collection of up to      *)
(* MaxEntries records of three models with a few tokens each.              *)
(***************************************************************************)
SummaryLines ==
    {UsageLine(Sonnet4, TsRecent, 1, 0, 0, 0, "s1"),
     UsageLine(Opus3, TsHourAgo, 1, 0, 0, 0, "s2"),
     UsageLine(Sonnet35, TsYesterday, 0, 2, 0, 0, "s1")}

SummaryInit ==
    /\ root_exists = TRUE
    /\ \E lines \in SeqsUpTo(SummaryLines, MaxEntries) :
           /\ fs = [NoFiles EXCEPT ![QueryPath] = lines]
           /\ writes = Len(lines)
           /\ listing = IF lines = <<>> THEN <<>> ELSE <<QueryPath>>
    /\ usage_data = LoadResult(root_exists, fs, <<>>, listing)
    /\ last_call = "__init__"
    /\ now \in Nows
    /\ tz = 2 * 60
    /\ result = <<>>
    /\ NoDashboard

Summarize64 ==
    /\ \E filter_data \in Filters :
           result' = Called(filter_data, get_summary_stats64(filter_data))
    /\ last_call' = "get_summary_stats"
    /\ UNCHANGED <<root_exists, fs, writes, usage_data, now, tz, listing, dashboard>>

SummaryNext == Summarize64

SummarySpec == SummaryInit /\ [][SummaryNext]_vars

(***************************************************************************)
(* The dashboard (ClaudeTokenTUI with its MonitorTab).  Textual runs every *)
(* handler and timer callback on one event loop; the handlers below have   *)
(* no await in them, so one runs to its end before the next starts.        *)
(* load_data is laid out statement by statement, to show the list while it *)
(* is being rebuilt: loader.before is the list when the call began,        *)
(* loader.after the list the call is going to leave, loader.handler the    *)
(* handler that made the call.  The session logs are taken not to change   *)
(* while one rescan is reading them.                                       *)
(***************************************************************************)
TimerIds == 1..MaxTimers

\* a handler that starts at any moment, as on a thread of its own
EventLoopFreeAlways == TRUE

EventLoopFree == loader.pc = "idle"

\* the timer forgotten without being stopped
stop_auto_refresh_without_stop(timer, running) ==
    [refresh_timer |-> None, timers |-> running]

\* if self.refresh_timer: self.refresh_timer.stop(); self.refresh_timer = None
stop_auto_refresh(timer, running) ==
    IF timer # None THEN [refresh_timer |-> None, timers |-> running \ {timer}]
    ELSE [refresh_timer |-> timer, timers |-> running]

\* if self.refresh_timer: self.refresh_timer.stop()
\* self.refresh_timer = self.set_interval(10.0, self.auto_update)
start_auto_refresh(timer, running, new) ==
    [refresh_timer |-> new,
     timers |-> (IF timer # None THEN running \ {timer} ELSE running) \cup {new}]

\* what update_monitor reads first
update_monitor == Called(5, get_recent_activity(5))

DashboardInit ==
    /\ root_exists = TRUE
    /\ fs = NoFiles
    /\ writes = 0
    /\ listing = <<>>
    /\ usage_data = LoadResult(root_exists, fs, <<>>, listing)
    /\ last_call = "__init__"
    /\ now \in Nows
    /\ tz = 2 * 60
    /\ result = <<>>
    /\ NoDashboard

\* the CLI writes a usage line to one of the session logs
SessionLogged ==
    /\ loader.pc = "idle"
    /\ writes < MaxWrites
    /\ \E p \in Paths :
           /\ fs' = [fs EXCEPT ![p] = Append(@, LineA)]
           /\ listing' \in (IF fs[p] = <<>> THEN Insertions(listing, p) ELSE {listing})
    /\ writes' = writes + 1
    /\ UNCHANGED <<root_exists, usage_data, last_call, now, tz, result, dashboard>>

on_mount ==
    /\ ~mounted
    /\ EventLoopFree
    /\ result' = update_monitor
    /\ \E new \in TimerIds \ (timers \cup ticks) :
           LET started == start_auto_refresh(refresh_timer, timers, new)
           IN  refresh_timer' = started.refresh_timer /\ timers' = started.timers
    /\ mounted' = TRUE
    /\ last_call' = "on_mount"
    /\ UNCHANGED <<root_exists, fs, writes, usage_data, now, tz, listing,
                   loader, auto_refresh, ticks>>

\* the "toggle-refresh" button
on_button_pressed ==
    /\ mounted
    /\ EventLoopFree
    /\ auto_refresh' = ~auto_refresh
    /\ IF auto_refresh'
       THEN \E new \in TimerIds \ (timers \cup ticks) :
                LET started == start_auto_refresh(refresh_timer, timers, new)
                IN  refresh_timer' = started.refresh_timer /\ timers' = started.timers
       ELSE LET stopped == stop_auto_refresh(refresh_timer, timers)
            IN  refresh_timer' = stopped.refresh_timer /\ timers' = stopped.timers
    /\ last_call' = "on_button_pressed"
    /\ UNCHANGED <<root_exists, fs, writes, usage_data, now, tz, result, listing,
                   loader, mounted, ticks>>

\* ten seconds have passed on a running timer: its callback is queued
TimerElapses ==
    /\ \E t \in timers \ ticks : ticks' = ticks \cup {t}
    /\ UNCHANGED <<root_exists, fs, writes, usage_data, last_call, now, tz, result,
                   listing, loader, mounted, auto_refresh, refresh_timer, timers>>

\* load_data up to the loop: return without a data root, else list the
\* files and empty the list
LoadBegun(handler) ==
    [pc |-> "extend",
     jsonl_files |-> IF find_claude_data_dir(root_exists) THEN listing ELSE <<>>,
     before |-> usage_data,
     after |-> LoadResult(root_exists, fs, usage_data, listing),
     handler |-> handler]

\* a queued callback runs: if self.auto_refresh: load_data(); update_monitor()
auto_update ==
    /\ EventLoopFree
    /\ \E t \in ticks : ticks' = ticks \ {t}
    /\ IF auto_refresh
       THEN /\ loader' = LoadBegun("auto_update")
            /\ usage_data' = IF find_claude_data_dir(root_exists) THEN <<>> ELSE usage_data
            /\ last_call' = "load_data"
       ELSE /\ last_call' = "auto_update"
            /\ UNCHANGED <<loader, usage_data>>
    /\ UNCHANGED <<root_exists, fs, writes, now, tz, result, listing,
                   mounted, auto_refresh, refresh_timer, timers>>

\* the "r" key: load_data(), then every tab is updated
action_refresh ==
    /\ mounted
    /\ EventLoopFree
    /\ loader' = LoadBegun("action_refresh")
    /\ usage_data' = IF find_claude_data_dir(root_exists) THEN <<>> ELSE usage_data
    /\ last_call' = "load_data"
    /\ UNCHANGED <<root_exists, fs, writes, now, tz, result, listing,
                   mounted, auto_refresh, refresh_timer, timers, ticks>>

\* one round of the loop: self.usage_data.extend(parse_jsonl_file(file_path))
LoadExtend ==
    /\ loader.pc = "extend"
    /\ loader.jsonl_files # <<>>
    /\ LET file_path == Head(loader.jsonl_files)
       IN  usage_data' = usage_data \o parse_jsonl_file(file_path, fs[file_path])
    /\ loader' = [loader EXCEPT !.jsonl_files = Tail(@)]
    /\ UNCHANGED <<root_exists, fs, writes, last_call, now, tz, result, listing,
                   mounted, auto_refresh, refresh_timer, timers, ticks>>

\* load_data has returned; the handler goes on to update_monitor and ends
LoadReturns ==
    /\ loader.pc = "extend"
    /\ loader.jsonl_files = <<>>
    /\ result' = update_monitor
    /\ last_call' = "update_monitor"
    /\ loader' = [loader EXCEPT !.pc = "idle"]
    /\ UNCHANGED <<root_exists, fs, writes, usage_data, now, tz, listing,
                   mounted, auto_refresh, refresh_timer, timers, ticks>>

\* a range button of the analytics tab: update_graph reads the time series
update_graph ==
    /\ mounted
    /\ EventLoopFree
    /\ \E days \in {1, 7} : result' = Called(days, get_time_series_data(days))
    /\ last_call' = "update_graph"
    /\ UNCHANGED <<root_exists, fs, writes, usage_data, now, tz, listing, dashboard>>

DashboardNext ==
    \/ SessionLogged \/ on_mount \/ on_button_pressed \/ TimerElapses
    \/ auto_update \/ action_refresh \/ LoadExtend \/ LoadReturns \/ update_graph

DashboardSpec == DashboardInit /\ [][DashboardNext]_vars

(***************************************************************************)
(* After a reload the collection is the concatenation of the parsed files  *)
(* that exist at that moment, and empty when the data root is absent.      *)
(***************************************************************************)
FilesNow == IF root_exists THEN fs ELSE NoFiles

\* C1: after every load_data, usage_data is exactly the concatenation of
\* parse_jsonl_file over the files present under the data root (in some
\* listing order); with the data root absent it is empty.
C1_ReloadReplacesCollection ==
    last_call = "load_data" =>
        \E order \in Orders(Paths) : usage_data = ExtendAll(FilesNow, order, 1)

(***************************************************************************)
(* The lines of the shape of section 6: an object of type "assistant"      *)
(* whose "message" is an object with a "usage" object.                     *)
(***************************************************************************)
IsAssistantUsageMessage(line) ==
    /\ line.json = "object"
    /\ "type" \in line.keys /\ line.type = "assistant"
    /\ "message" \in line.keys /\ line.message = "object"
    /\ "usage" \in line.keys /\ line.usage = "object"

OneEntryPerValidLine(path, lines) ==
    LET valid == SelectSeq(lines, IsAssistantUsageMessage)
    IN  [i \in 1..Len(valid) |-> UsageEntry(valid[i], path)]

\* C2: parse_jsonl_file emits one entry for each valid assistant-usage line,
\* in line order, and skips every other line without aborting the read.
C2_BadLineNeverAbortsRead ==
    \A p \in Paths : parse_jsonl_file(p, fs[p]) = OneEntryPerValidLine(p, fs[p])

(***************************************************************************)
(* Vocabulary of the properties of the queries.                            *)
(***************************************************************************)
QueryNames == {"get_summary_stats", "get_recent_activity", "get_today_data",
               "get_hourly_usage", "get_recent_trend", "get_time_series_data"}

\* every token count of every record is an integer, as in the data model
WellTyped(records) == \A i \in DOMAIN records : ~HasNone(records[i])

Parses(entry) == get_local_datetime(entry.timestamp).ok
LocalTime(entry) == get_local_datetime(entry.timestamp).t

\* the records whose local timestamp lies in [from, to)
Within(records, from, to) ==
    SelectSeq(records, LAMBDA e : Parses(e) /\ from <= LocalTime(e) /\ LocalTime(e) < to)

\* the records whose local timestamp is not earlier than from
NotBefore(records, from) ==
    SelectSeq(records, LAMBDA e : Parses(e) /\ LocalTime(e) >= from)

RECURSIVE TokensOf(_)
TokensOf(records) ==
    IF records = <<>> THEN 0
    ELSE Head(records).input_tokens + Head(records).output_tokens
         + Head(records).cache_creation_input_tokens
         + Head(records).cache_read_input_tokens + TokensOf(Tail(records))

RECURSIVE FieldOf(_, _)
FieldOf(records, field) ==
    IF records = <<>> THEN 0 ELSE Head(records)[field] + FieldOf(Tail(records), field)

RECURSIVE CostOf(_)
CostOf(records) ==
    IF records = <<>> THEN 0 ELSE calculate_cost(Head(records)) + CostOf(Tail(records))

RECURSIVE SumSeq(_)
SumSeq(seq) == IF seq = <<>> THEN 0 ELSE Head(seq) + SumSeq(Tail(seq))

\* C3: on every collection ingestion can produce, every query returns a
\* result and raises nothing.
C3_QueriesNeverRaise ==
    last_call \in QueryNames => result.ret.exc = ""

\* C4: for every window, the buckets of get_recent_trend(minutes) cover
\* [now - minutes, now): their sums total the tokens of exactly the records
\* whose local timestamp lies in that window.
C4_TrendBucketsCoverAnyWindow ==
    (last_call = "get_recent_trend" /\ WellTyped(usage_data)) =>
        /\ result.ret.exc = ""
        /\ SumSeq(result.ret.value)
             = TokensOf(Within(usage_data, now - result.args, now))

\* C5: get_recent_trend(60) returns six integers, the i-th one the tokens of
\* the records whose local timestamp lies in the i-th ten minutes of
\* [now - 60, now); so their sum is the token total of the records within
\* [now - 60, now), and records outside it or without a parseable timestamp
\* add nothing.
C5_Trend60SumsTheLastHour ==
    (last_call = "get_recent_trend" /\ result.args = 60 /\ WellTyped(usage_data)) =>
        /\ result.ret.exc = ""
        /\ DOMAIN result.ret.value = 1..6
        /\ \A b \in 1..6 :
               result.ret.value[b]
                 = TokensOf(Within(usage_data, now - 60 + 10 * (b - 1), now - 60 + 10 * b))
        /\ SumSeq(result.ret.value) = TokensOf(Within(usage_data, now - 60, now))

C5_Witness ==
    /\ last_call = "get_recent_trend" /\ result.args = 60 /\ WellTyped(usage_data)
    /\ result.ret.value[1] > 0
    /\ \E i \in DOMAIN usage_data :
           Parses(usage_data[i]) /\ LocalTime(usage_data[i]) < now - 60

RECURSIVE SumOverKeys(_, _, _)
SumOverKeys(f, keys, field) ==
    IF keys = {} THEN 0
    ELSE LET k == CHOOSE x \in keys : TRUE
         IN  f[k][field] + SumOverKeys(f, keys \ {k}, field)

\* the records get_hourly_usage(hours) keeps, and those of them under a label
HourlyKept(hours) == NotBefore(usage_data, now - hours * 60)
HourLabel(entry) == <<HourOf(LocalTime(entry))>>
UnderHour(hours, label) == SelectSeq(HourlyKept(hours), LAMBDA e : HourLabel(e) = label)

\* C6: get_hourly_usage(h) leaves out every record whose local timestamp is
\* earlier than now - h; the labels of the result are the local hours of day
\* of the records kept, and the tokens, cost and requests under a label are
\* the sums over exactly the records kept with that hour of day, whatever
\* their date.
C6_HourlyBucketsSumTheirRecords ==
    (last_call = "get_hourly_usage" /\ WellTyped(usage_data)) =>
        LET hours == result.args
            hourly_data == result.ret.value
            kept == HourlyKept(hours)
        IN  /\ result.ret.exc = ""
            /\ DOMAIN hourly_data = {HourLabel(kept[i]) : i \in DOMAIN kept}
            /\ \A label \in DOMAIN hourly_data :
                   /\ hourly_data[label].tokens = TokensOf(UnderHour(hours, label))
                   /\ hourly_data[label].cost = CostOf(UnderHour(hours, label))
                   /\ hourly_data[label].requests = Len(UnderHour(hours, label))

\* two records of different days in one bucket, and a record left out
C6_Witness ==
    /\ last_call = "get_hourly_usage" /\ WellTyped(usage_data)
    /\ \E label \in DOMAIN result.ret.value :
           /\ result.ret.value[label].requests = 2
           /\ DateOf(LocalTime(UnderHour(result.args, label)[1]))
                # DateOf(LocalTime(UnderHour(result.args, label)[2]))

\* the records get_time_series_data(days) keeps, the label of a record (its
\* local timestamp cut to the hour, or to the day) and the records under a label
SeriesKept(days) == NotBefore(usage_data, now - days * 24 * 60)
SeriesLabel(entry, days) ==
    IF days <= 2 THEN <<DateOf(LocalTime(entry)), HourOf(LocalTime(entry))>>
    ELSE <<DateOf(LocalTime(entry))>>
UnderLabel(days, label) == SelectSeq(SeriesKept(days), LAMBDA e : SeriesLabel(e, days) = label)

\* C7: get_time_series_data(days) labels by date and hour exactly when
\* days <= 2 and by date only otherwise, and the format it returns is the
\* one that printed every label of the map it returns.
C7_SeriesGranularityAndFormat ==
    last_call = "get_time_series_data" =>
        LET days == result.args
            time_series == result.ret.value[1]
            time_format == result.ret.value[2]
        IN  /\ result.ret.exc = ""
            /\ time_format = (IF days <= 2 THEN "%Y-%m-%d %H:00" ELSE "%Y-%m-%d")
            /\ \A label \in DOMAIN time_series :
                   /\ Len(label) = (IF days <= 2 THEN 2 ELSE 1)
                   /\ \E i \in DOMAIN usage_data :
                          /\ Parses(usage_data[i])
                          /\ label = strftime(LocalTime(usage_data[i]), time_format)

\* hourly labels at the threshold, days = 2
C7_Witness ==
    /\ last_call = "get_time_series_data" /\ result.args = 2
    /\ \E label \in DOMAIN result.ret.value[1] : Len(label) = 2

ZeroSummary ==
    [total_requests |-> 0, total_input |-> 0, total_output |-> 0,
     total_cache_creation |-> 0, total_cache_read |-> 0, total_cost |-> 0,
     models |-> [m \in {} |-> 0]]

\* C9: get_summary_stats([]) is all zeros with an empty model map; the
\* total_requests of get_summary_stats(records) is the number of records;
\* without an argument it summarizes the whole collection.
C9_SummaryOfEmptyAndRequestCount ==
    last_call = "get_summary_stats" =>
        LET filter_data == result.args
            records == IF filter_data.given THEN filter_data.data ELSE usage_data
        IN  /\ (filter_data.given /\ filter_data.data = <<>>) =>
                   (result.ret.exc = "" /\ result.ret.value = ZeroSummary)
            /\ WellTyped(records) =>
                   (result.ret.exc = "" /\ result.ret.value.total_requests = Len(records))
            /\ (~filter_data.given /\ WellTyped(usage_data)) =>
                   result.ret = get_summary_stats(Filter(usage_data))

\* the whole collection, of two records, summarized without an argument
C9_Witness ==
    /\ last_call = "get_summary_stats" /\ ~result.args.given
    /\ Len(usage_data) = 2 /\ WellTyped(usage_data)
    /\ result.ret.value.total_requests = 2

SummaryTotals == {"total_requests", "total_input", "total_output",
                  "total_cache_creation", "total_cache_read", "total_cost"}

RECURSIVE SumOfSingles(_, _)
SumOfSingles(records, total) ==
    IF records = <<>> THEN 0
    ELSE get_summary_stats(Filter(<<Head(records)>>)).value[total]
         + SumOfSingles(Tail(records), total)

\* C10: every total of get_summary_stats(records) is the sum over the
\* records r of the same total of get_summary_stats([r]).
C10_SummaryIsAdditive ==
    LET records == IF result.args.given THEN result.args.data ELSE usage_data IN
    (last_call = "get_summary_stats" /\ WellTyped(records)) =>
        /\ result.ret.exc = ""
        /\ \A total \in SummaryTotals :
               result.ret.value[total] = SumOfSingles(records, total)

\* two records of models with different rates
C10_Witness ==
    /\ last_call = "get_summary_stats" /\ ~result.args.given
    /\ Len(usage_data) = 2 /\ WellTyped(usage_data)
    /\ usage_data[1].model = Opus3 /\ usage_data[2].model = Sonnet4
    /\ result.ret.value.total_cost > 0

(***************************************************************************)
(* Recent activity.  A list `value` is drawn from the collection when its  *)
(* positions can be matched one to one with positions of the collection    *)
(* holding the same record; the records left over are the ones not         *)
(* returned.                                                               *)
(***************************************************************************)
TimestampsAreStrings == \A i \in DOMAIN usage_data : usage_data[i].timestamp.kind # "None"

Descending(value) ==
    \A i, j \in DOMAIN value : i < j => ~StrLess(value[i].timestamp, value[j].timestamp)

Matchings(value) ==
    {f \in [DOMAIN value -> DOMAIN usage_data] :
        /\ \A i, j \in DOMAIN value : i # j => f[i] # f[j]
        /\ \A i \in DOMAIN value : usage_data[f[i]] = value[i]}

TheGreatest(value) ==
    \E f \in Matchings(value) :
        \A j \in DOMAIN usage_data \ {f[i] : i \in DOMAIN value} :
            \A i \in DOMAIN value : ~StrLess(value[i].timestamp, usage_data[j].timestamp)

RecentActivityAsClaimed(n, ret) ==
    /\ ret.exc = ""
    /\ Len(ret.value) <= n
    /\ Descending(ret.value)
    /\ Matchings(ret.value) # {}
    /\ Len(usage_data) >= n => Len(ret.value) = n /\ TheGreatest(ret.value)

\* C11, as stated: for every limit n, get_recent_activity(n) returns at most
\* n records, in descending timestamp order, all of them records of the
\* collection, and the n greatest when the collection has at least n.
C11_RecentActivityAnyLimit ==
    (last_call = "get_recent_activity" /\ TimestampsAreStrings)
    => RecentActivityAsClaimed(result.args, result.ret)

\* C11, amended: the same for every limit n >= 0.
C11_RecentActivityNonNegativeLimit ==
    (last_call = "get_recent_activity" /\ TimestampsAreStrings /\ result.args >= 0)
    => RecentActivityAsClaimed(result.args, result.ret)

\* two records out of file order are asked for with limit 1
C11_Witness ==
    /\ last_call = "get_recent_activity"
    /\ TimestampsAreStrings
    /\ result.args = 1
    /\ Len(usage_data) = 2
    /\ StrLess(usage_data[1].timestamp, usage_data[2].timestamp)
    /\ result.ret = Return(<<usage_data[2]>>)

(***************************************************************************)
(* Today's entries.                                                        *)
(***************************************************************************)
DatePrefixIsToday(entry) ==
    entry.timestamp.kind = "iso" /\ DateOf(entry.timestamp.wall) = DateOf(now)

\* C12: get_today_data returns exactly the records whose timestamp string
\* begins with the caller's local date, in collection order, whatever the
\* local date of the instant the string denotes; nothing on an empty
\* collection.
C12_TodayIsTheDatePrefix ==
    (last_call = "get_today_data" /\ TimestampsAreStrings)
    => /\ result.ret = Return(SelectSeq(usage_data, DatePrefixIsToday))
       /\ usage_data = <<>> => result.ret.value = <<>>

\* a record written today before 02:00 local time carries yesterday's UTC
\* date and is left out; a record of this morning is returned
C12_Witness ==
    /\ last_call = "get_today_data"
    /\ Len(usage_data) = 2
    /\ usage_data[1].timestamp = TsLateUtc
    /\ DateOf(LocalTime(usage_data[1])) = DateOf(now)
    /\ usage_data[2].timestamp = TsRecent
    /\ result.ret = Return(<<usage_data[2]>>)

(***************************************************************************)
(* The cost of a record.  Rates are in cents per million tokens, so three  *)
(* dollars are 3 * 100 * 1000000 units.                                    *)
(***************************************************************************)
RatesOf(model) == IF model \in DOMAIN PRICING THEN PRICING[model] ELSE PRICING[Sonnet4]

AllCountsZero(r) == \A f \in TokenFields : r[f] = 0

\* C13: the cost of a record is never negative, is 0 when the four token
\* counts are 0, is the sum over the four categories of count times rate,
\* and is three dollars for a million input tokens of claude-sonnet-4.
C13_CostIsTheRateSum ==
    last_call = "calculate_cost"
    => LET r == result.args
           cost == result.ret.value
       IN  /\ result.ret.exc = ""
           /\ cost >= 0
           /\ AllCountsZero(r) => cost = 0
           /\ cost = r.input_tokens * RatesOf(r.model).input
                     + r.output_tokens * RatesOf(r.model).output
                     + r.cache_creation_input_tokens * RatesOf(r.model).cache_write
                     + r.cache_read_input_tokens * RatesOf(r.model).cache_read
           /\ (/\ r.model = Sonnet4
               /\ r.input_tokens = 1000000
               /\ r.output_tokens + r.cache_creation_input_tokens
                  + r.cache_read_input_tokens = 0)
              => cost = 3 * 100 * 1000000

C13_Witness ==
    /\ last_call = "calculate_cost"
    /\ result.args.model = Sonnet4
    /\ result.args.input_tokens = 1000000
    /\ result.args.cache_read_input_tokens = 2
    /\ result.ret = Return(3 * 100 * 1000000 + 2 * 30)

\* C14: a record whose model is not a key of the table, "unknown" and a
\* prefix of a key included, costs what the same counts cost under
\* claude-sonnet-4-20250514, and pricing it never raises; a record whose
\* model is a key is priced by that key's rates.
C14_UnknownModelGetsDefaultRates ==
    last_call = "calculate_cost"
    => LET r == result.args IN
       /\ result.ret.exc = ""
       /\ r.model \notin {Sonnet4, Sonnet35, Opus3}
          => result.ret.value = calculate_cost([r EXCEPT !.model = Sonnet4])
       /\ r.model = Opus3 /\ ~AllCountsZero(r)
          => result.ret.value > calculate_cost([r EXCEPT !.model = Sonnet4])

C14_Witness ==
    /\ last_call = "calculate_cost"
    /\ result.args.model = "claude-3-opus"
    /\ result.args.input_tokens = 1000000
    /\ result.args.output_tokens = 1
    /\ result.ret = Return(3 * 100 * 1000000 + 1500)

(***************************************************************************)
(* Records whose timestamp is not an ISO date and time: the empty string   *)
(* of a line without timestamp, and null.                                  *)
(***************************************************************************)
Unparseable(entry) == entry.timestamp.kind # "iso"

WithoutUnparseable == SelectSeq(usage_data, LAMBDA e : ~Unparseable(e))

\* C15: the answer of get_hourly_usage, get_recent_trend and
\* get_time_series_data, for any window, is the answer on the collection
\* without the records whose timestamp does not parse, and get_summary_stats
\* of the whole collection still counts those records.
C15_UnparseableTimestampOnlyInSummary ==
    /\ last_call = "get_hourly_usage"
       => result.ret = Return(HourlyLoop(WithoutUnparseable, now - result.args * 60))
    /\ last_call = "get_recent_trend"
       => result.ret = Return([b \in 1..6 |->
                                 BucketTokens(WithoutUnparseable,
                                              BucketStart(now - result.args, b - 1),
                                              BucketStart(now - result.args, b))])
    /\ last_call = "get_time_series_data"
       => result.ret = Return(<<SeriesLoop(WithoutUnparseable,
                                           now - result.args * 24 * 60, result.args),
                                TimeFormat(result.args)>>)
    /\ (last_call = "get_summary_stats" /\ ~result.args.given /\ WellTyped(usage_data))
       => /\ result.ret.exc = ""
          /\ result.ret.value.total_requests = Len(usage_data)
          /\ result.ret.value.total_input = FieldOf(usage_data, "input_tokens")

\* a line without timestamp and a line of five minutes ago: the hourly
\* buckets hold the second alone
C15_Witness ==
    /\ last_call = "get_hourly_usage"
    /\ Len(usage_data) = 2
    /\ Unparseable(usage_data[1])
    /\ usage_data[1].input_tokens > 0
    /\ usage_data[2].timestamp = TsRecent
    /\ WellTyped(usage_data)
    /\ \E hour \in DOMAIN result.ret.value :
           /\ DOMAIN result.ret.value = {hour}
           /\ result.ret.value[hour].requests = 1
           /\ result.ret.value[hour].tokens = TotalTokens(usage_data[2])

(***************************************************************************)
(* Reloading twice.                                                        *)
(***************************************************************************)
\* C18: after a load_data, and as long as no file has changed, another
\* load_data leaves usage_data as it is (the same records in the same
\* order), so every query answers as before.
C18_ReloadIsIdempotent ==
    last_call = "load_data"
    => LoadResult(root_exists, fs, usage_data, listing) = usage_data

\* both log files hold entries and have been loaded
C18_Witness ==
    /\ last_call = "load_data"
    /\ Len(listing) = 2
    /\ \A p \in Paths : parse_jsonl_file(p, fs[p]) # <<>>
    /\ usage_data = ExtendAll(fs, listing, 1)

(***************************************************************************)
(* The queries leave the collection alone.                                 *)
(***************************************************************************)
\* C17: after any sequence of calls of calculate_cost, get_summary_stats,
\* get_recent_activity, get_today_data, get_hourly_usage, get_recent_trend
\* and get_time_series_data, usage_data is still the list load_data built
\* from the files: the same records with the same contents in the same
\* order.
C17_QueriesLeaveTheCollection ==
    usage_data = LoadResult(root_exists, fs, <<>>, listing)

\* get_recent_activity has returned two records in the reverse of their
\* order in the collection
C17_Witness ==
    /\ last_call = "get_recent_activity"
    /\ Len(usage_data) = 2
    /\ result.ret = Return(<<usage_data[2], usage_data[1]>>)
    /\ usage_data[1] # usage_data[2]
    /\ usage_data = ExtendAll(fs, listing, 1)

(***************************************************************************)
(* What the handlers of the dashboard see of a reload.                     *)
(***************************************************************************)
\* a handler that reads the collection has just run; no reader changes
\* usage_data, so the list of this state is the list it read
ReaderRan == last_call \in {"on_mount", "update_monitor", "update_graph"}

\* C16: whenever a reader observes the collection, it is the whole list
\* from before the latest load_data or the whole list that rescan builds,
\* never the emptied or half-extended list in between.
C16_ReadersSeeWholeCollections ==
    ReaderRan => usage_data \in {loader.before, loader.after}

\* a reload over two log files that added entries to a collection that had
\* some has ended, and update_monitor has read the result
C16_Witness ==
    /\ last_call = "update_monitor"
    /\ Len(listing) = 2
    /\ loader.before # <<>>
    /\ Len(loader.after) > Len(loader.before)
    /\ \E i, j \in DOMAIN usage_data : usage_data[i].project_dir # usage_data[j].project_dir
    /\ usage_data = loader.after

(***************************************************************************)
(* The refresh timer of the monitor tab.                                   *)
(***************************************************************************)
\* C20: once the monitor is mounted, whatever buttons were pressed and
\* callbacks run, a timer is running exactly when auto_refresh is true, it
\* is the one refresh_timer holds and there is no other, and a load_data
\* made by auto_update is under way only while auto_refresh is true: a
\* callback that runs while paused loads nothing.
C20_OneTimerIffAutoRefresh ==
    /\ Cardinality(timers) <= 1
    /\ mounted => /\ (timers # {}) <=> auto_refresh
                  /\ timers = (IF refresh_timer = None THEN {} ELSE {refresh_timer})
    /\ (loader.pc # "idle" /\ loader.handler = "auto_update") => auto_refresh
    /\ last_call = "auto_update" => ~auto_refresh /\ loader.pc = "idle"

\* the callback of a timer stopped by the pause button ran afterwards and
\* left the collection alone
C20_Witness ==
    /\ mounted
    /\ ~auto_refresh
    /\ refresh_timer = None
    /\ timers = {}
    /\ last_call = "auto_update"
    /\ usage_data # LoadResult(root_exists, fs, usage_data, listing)

(***************************************************************************)
(* The per-model breakdown of a summary.                                   *)
(***************************************************************************)
\* the records of a list whose model is m, in the order of the list
RecordsOf(records, m) == SelectSeq(records, LAMBDA e : e.model = m)

\* the costs of the records added as floats, from 0, in the order of the list
RECURSIVE CostOf64(_)
CostOf64(records) ==
    IF records = <<>> THEN Zero64
    ELSE FloatAdd(CostOf64(Front(records)), calculate_cost64(Last(records)))

\* the costs of the model entries added as floats, from 0, in a given order
RECURSIVE CostInOrder64(_, _)
CostInOrder64(models, order) ==
    IF order = <<>> THEN Zero64
    ELSE FloatAdd(CostInOrder64(models, Front(order)), models[Last(order)].cost)

\* each record is tallied under its own model key and no other, and the
\* request and token tallies of the model entries add up to the totals
TalliesPartition(records, summary) ==
    LET models == summary.models IN
    /\ DOMAIN models = {records[i].model : i \in DOMAIN records}
    /\ \A m \in DOMAIN models :
           /\ models[m].requests = Len(RecordsOf(records, m))
           /\ \A f \in TokenFields : models[m][f] = FieldOf(RecordsOf(records, m), f)
    /\ SumOverKeys(models, DOMAIN models, "requests") = summary.total_requests
    /\ SumOverKeys(models, DOMAIN models, "input_tokens") = summary.total_input
    /\ SumOverKeys(models, DOMAIN models, "output_tokens") = summary.total_output
    /\ SumOverKeys(models, DOMAIN models, "cache_creation_input_tokens")
           = summary.total_cache_creation
    /\ SumOverKeys(models, DOMAIN models, "cache_read_input_tokens")
           = summary.total_cache_read

\* C19 as stated: in every summary the model entries partition the records,
\* the requests and the four token counts of the entries add up to the
\* totals, and the costs of the entries, added in some order of the keys,
\* give total_cost.
C19_ModelCostsAddUpToTotalCost ==
    LET records == IF result.args.given THEN result.args.data ELSE usage_data IN
    (last_call = "get_summary_stats" /\ WellTyped(records)) =>
        /\ result.ret.exc = ""
        /\ TalliesPartition(records, result.ret.value)
        /\ \E order \in Orders(DOMAIN result.ret.value.models) :
               CostInOrder64(result.ret.value.models, order) = result.ret.value.total_cost

\* C19: in every summary the model entries partition the records, the
\* requests and the four token counts of the entries add up to the totals,
\* and the cost of each entry is the float sum of the costs of the records
\* of its model, added from 0 in the order of the list.
C19_ModelEntriesPartitionTheRecords ==
    LET records == IF result.args.given THEN result.args.data ELSE usage_data IN
    (last_call = "get_summary_stats" /\ WellTyped(records)) =>
        /\ result.ret.exc = ""
        /\ TalliesPartition(records, result.ret.value)
        /\ \A m \in DOMAIN result.ret.value.models :
               result.ret.value.models[m].cost = CostOf64(RecordsOf(records, m))

\* three records of two models summarized: the entry of the model with two
\* records holds more than the cost of either, and the costs of the two
\* entries do not add up to total_cost in any order
C19_Witness ==
    /\ last_call = "get_summary_stats" /\ ~result.args.given
    /\ Len(usage_data) = 3
    /\ Cardinality(DOMAIN result.ret.value.models) = 2
    /\ \E m \in DOMAIN result.ret.value.models :
           /\ result.ret.value.models[m].requests = 2
           /\ result.ret.value.models[m].cost # calculate_cost64(usage_data[1])
           /\ result.ret.value.models[m].cost # calculate_cost64(usage_data[3])
    /\ \A order \in Orders(DOMAIN result.ret.value.models) :
           CostInOrder64(result.ret.value.models, order) # result.ret.value.total_cost

====
